---- MODULE Spec2Model ----
(***************************************************************************)
(* DataLocker (src/DataLocker_ver1.0.py): the encrypt / decrypt button     *)
(* handlers, the per-file transforms and the DLtable / dl_log helpers.     *)
(*                                                                         *)
(* The source's identifiers are Korean; TLA+ identifiers are ASCII, so     *)
(* each definition carries the English rendering of the source name:       *)
(*   file_encrypt          line 52      file_encrypt_process   line 73     *)
(*   file_decrypt          line 90      file_decrypt_process   line 107    *)
(*   enc_key_generate      line 131     enc_key_save           line 135    *)
(*   enc_key_get           line 140     enc_key_delete         line 149    *)
(*   log_save              line 154                                        *)
(* A handler runs to completion once started (Tk runs one callback at a    *)
(* time); it is split into one step per statement that touches the file    *)
(* system or the database, because each of them can raise and the          *)
(* exception leaves the handler where it stood.                            *)
(***************************************************************************)
EXTENDS Integers, Sequences, FiniteSets, TLC

\* ------------------------------------------------------------- bounds
\* Number of keys Fernet.generate_key() hands out (one per press of the
\* encrypt button).
MaxKeys == 2
\* Number of I/O or database errors the environment injects in one run.
MaxFaults == 1

\* ------------------------------------------------------- file system
\* One directory with two regular files, and a path that does not exist.
Dir == "D"
DirFiles == <<"D/a", "D/b">>
Files == {DirFiles[i] : i \in 1..Len(DirFiles)}
Missing == "nope"
Paths == Files \cup {Dir, Missing}
NoFile == "-"

\* os.path.isfile / os.path.isdir / os.walk (lines 60-65, 95-100)
os_path_isfile(p) == p \in Files
os_path_isdir(p) == p = Dir
os_walk(p) == IF p = Dir THEN DirFiles ELSE <<>>

\* File contents are sequences of bytes; a byte is a sequence of integers so
\* that plaintext bytes, cipher bytes and tags are all comparable values.
Plaintexts == { << <<1>> >>, << <<1>>, <<2>> >> }

\* ------------------------------------------------------------ Fernet
\* A Fernet token is  version || ciphertext || HMAC(key, version || ciphertext).
FernetVersion == <<128>>

RECURSIVE Flat(_)
Flat(s) == IF s = <<>> THEN <<>> ELSE <<Len(Head(s))>> \o Head(s) \o Flat(Tail(s))

Hmac(k, body) == <<k>> \o Flat(body)
AesEncrypt(k, d) == [i \in 1..Len(d) |-> <<k>> \o d[i]]
AesDecrypt(k, c) == [i \in 1..Len(c) |-> Tail(c[i])]

Fernet_encrypt(k, d) ==
  LET body == <<FernetVersion>> \o AesEncrypt(k, d)
  IN  body \o <<Hmac(k, body)>>

\* fernet.decrypt without the authentication check: what a cipher that is not
\* authenticated would return.
Fernet_decrypt_Unauthenticated(k, t) ==
  IF Len(t) >= 2
  THEN [ok |-> TRUE,
        data |-> [i \in 1..(Len(t) - 2) |->
                    IF Len(t[i + 1]) > 0 THEN Tail(t[i + 1]) ELSE <<>>]]
  ELSE [ok |-> TRUE, data |-> <<>>]

\* fernet.decrypt that verifies the tag but hands back the cipher bytes as they
\* are.
Fernet_decrypt_Raw(k, t) ==
  IF /\ Len(t) >= 2
     /\ t[1] = FernetVersion
     /\ t[Len(t)] = Hmac(k, SubSeq(t, 1, Len(t) - 1))
  THEN [ok |-> TRUE, data |-> SubSeq(t, 2, Len(t) - 1)]
  ELSE [ok |-> FALSE, data |-> <<>>]

\* fernet.decrypt: raises InvalidToken (ok = FALSE) unless the tag verifies.
Fernet_decrypt(k, t) ==
  IF /\ Len(t) >= 2
     /\ t[1] = FernetVersion
     /\ t[Len(t)] = Hmac(k, SubSeq(t, 1, Len(t) - 1))
  THEN [ok |-> TRUE, data |-> AesDecrypt(k, SubSeq(t, 2, Len(t) - 1))]
  ELSE [ok |-> FALSE, data |-> <<>>]

\* ---------------------------------------------------------- database
\* None, the value enc_key_get returns when no row matches (line 146).
NoKey == 0

\* The table definition of DLtable is not part of the source file; the
\* specification's data model declares filepath the unique primary key.
FilepathUnique_Dropped == FALSE
FilepathUnique == TRUE

Rows(t, p) == {i \in 1..Len(t) : t[i][1] = p}

\* INSERT INTO DLtable under the table's key constraint: a duplicate entry
\* makes execute raise and leaves the table as it was.
INSERT_DLtable(t, p, k) ==
  IF FilepathUnique /\ Rows(t, p) # {}
  THEN [ok |-> FALSE, t |-> t]
  ELSE [ok |-> TRUE, t |-> Append(t, <<p, k>>)]

\* enc_key_save, with the write left out.
enc_key_save_Skipped(t, p, k) == [ok |-> TRUE, t |-> t]

\* enc_key_save (lines 135-137)
enc_key_save(t, p, k) == INSERT_DLtable(t, p, k)

\* enc_key_get with a SELECT that matches no row.
enc_key_get_Never(t, p) == NoKey

\* enc_key_get (lines 140-146): fetchone() of the SELECT, or None.
enc_key_get(t, p) ==
  IF Rows(t, p) = {} THEN NoKey
  ELSE t[CHOOSE i \in Rows(t, p) : \A j \in Rows(t, p) : i <= j][2]

\* enc_key_delete, with the DELETE left out.
enc_key_delete_Skipped(t, p) == t

\* enc_key_delete with the WHERE clause left out.
enc_key_delete_All(t, p) == <<>>

\* enc_key_delete (lines 149-151): DELETE ... WHERE filepath = p.
enc_key_delete(t, p) == SelectSeq(t, LAMBDA r : r[1] # p)

\* log_save that rewrites the table instead of adding a row.
log_save_Overwrite(l, p, what) == <<<<p, what>>>>

\* log_save (lines 154-156)
log_save(l, p, what) == Append(l, <<p, what>>)

\* "if not key" (line 110), with the test never true.
key_missing_Never(k) == FALSE

\* "if not key" (line 110)
key_missing(k) == k = NoKey

\* ------------------------------------------------------------- state
VARIABLES
  files,     \* path -> bytes of the file
  DLtable,   \* rows <<filepath, EKey>>
  dl_log,    \* rows <<filepath, operation>>
  pc,        \* the statement the running handler stands at, or "idle"
  op,        \* the handler last started: "encrypt", "decrypt" or "none"
  path,      \* the path read from the entry box (lines 57, 92)
  key,       \* the local key of the running handler (lines 54, 109)
  todo,      \* files the walk has still to hand to the per-file function
  cur,       \* the file the per-file function is working on
  buf,       \* the transformed data about to be written (lines 82, 121)
  msgs,      \* message boxes shown since the handler started
  raised,    \* the exception that ended the handler, <<kind, file>>, or <<>>
  nextKey,   \* next value Fernet.generate_key() returns
  faults,    \* environment errors injected so far
  orig,      \* path -> bytes read by the last encryption of the path
  pre,       \* files and DLtable as they were when the handler started
  broken     \* files on which a per-file function has raised

vars == <<files, DLtable, dl_log, pc, op, path, key, todo, cur, buf, msgs,
          raised, nextKey, faults, orig, pre, broken>>

store == <<files, DLtable, dl_log>>

Init ==
  /\ files \in [Files -> Plaintexts]
  /\ DLtable = <<>>
  /\ dl_log = <<>>
  /\ pc = "idle"
  /\ op = "none"
  /\ path = NoFile
  /\ key = NoKey
  /\ todo = <<>>
  /\ cur = NoFile
  /\ buf = <<>>
  /\ msgs = <<>>
  /\ raised = <<>>
  /\ nextKey = 1
  /\ faults = 0
  /\ orig = files
  /\ pre = [files |-> files, DLtable |-> <<>>]
  /\ broken = {}


\* ------------------------------------------------------ shared steps
ctl == <<op, path, todo, nextKey, pre>>

\* The environment makes the statement at hand raise (disk or database error).
Fault == faults < MaxFaults /\ faults' = faults + 1

\* The exception caught and dropped around the per-file call: the walk goes
\* on with the next file and nothing is reported.
Raise_Swallowed(kind) ==
  /\ pc' = "walk"
  /\ raised' = raised
  /\ broken' = broken \cup {cur}
  /\ key' = IF op = "encrypt" THEN key ELSE NoKey
  /\ cur' = NoFile
  /\ buf' = <<>>
  /\ UNCHANGED <<ctl, msgs, orig>>

\* An exception leaves the per-file function and the button handler (neither
\* has a try block); Tk reports it and the main loop goes on.
Raise(kind) ==
  /\ pc' = "idle"
  /\ raised' = <<kind, cur>>
  /\ broken' = broken \cup {cur}
  /\ key' = NoKey
  /\ cur' = NoFile
  /\ buf' = <<>>
  /\ UNCHANGED <<ctl, msgs, orig>>

\* open(path, 'wb') (lines 83, 122): truncates the file, or raises before it.
OpenForWrite(next) ==
  \/ /\ files' = [files EXCEPT ![cur] = <<>>]
     /\ pc' = next
     /\ UNCHANGED <<DLtable, dl_log, ctl, key, cur, buf, msgs, raised, faults,
                    orig, broken>>
  \/ /\ Fault
     /\ Raise("IOError")
     /\ UNCHANGED store

\* file.write(data) and the close of the with block (lines 84, 123): all of
\* the data, or an error after only part of it reached the file.
WriteAll(next) ==
  \/ /\ files' = [files EXCEPT ![cur] = buf]
     /\ pc' = next
     /\ UNCHANGED <<DLtable, dl_log, ctl, key, cur, buf, msgs, raised, faults,
                    orig, broken>>
  \/ /\ Fault
     /\ \E n \in 0..(Len(buf) - 1) :
          files' = [files EXCEPT ![cur] = SubSeq(buf, 1, n)]
     /\ Raise("IOError")
     /\ UNCHANGED <<DLtable, dl_log>>

\* log_save call (lines 87, 128), after which the per-file function returns.
LogAndReturn(what) ==
  \/ /\ dl_log' = log_save(dl_log, cur, what)
     /\ pc' = "walk"
     /\ key' = IF op = "encrypt" THEN key ELSE NoKey
     /\ cur' = NoFile
     /\ buf' = <<>>
     /\ UNCHANGED <<files, DLtable, ctl, msgs, raised, faults, orig, broken>>
  \/ /\ Fault
     /\ Raise("DatabaseError")
     /\ UNCHANGED store

\* ------------------------------------------------- button handlers
\* enc_key_generate that returns the same key on every call.
enc_key_generate_Fixed == NoKey + 1

\* enc_key_generate (lines 131-132): a key no earlier call returned.
enc_key_generate == nextKey

InvalidPathBox(p) == <<"showerror", "invalid path", p>>
KeyNotFoundBox(f) == <<"showerror", "key not found", f>>
DecryptedBox(f) == <<"showinfo", "decrypted", f>>
EncryptedBox(p) == <<"showinfo", "encrypted", p>>

\* The files the handler will pass to the per-file function (lines 60-65,
\* 95-100).
Targets(p) ==
  IF os_path_isfile(p) THEN <<p>>
  ELSE IF os_path_isdir(p) THEN os_walk(p)
  ELSE <<>>

\* The same test with the else branch dropped: whatever is not a file is
\* walked as a directory.
Rejected_Never(p) == FALSE

\* "else: showerror; return" (lines 66-68, 101-103)
Rejected(p) == ~os_path_isfile(p) /\ ~os_path_isdir(p)

Begin(kind, p) ==
  /\ pc = "idle"
  /\ op' = kind
  /\ path' = p
  /\ raised' = <<>>
  /\ pre' = [files |-> files, DLtable |-> DLtable]
  /\ cur' = NoFile
  /\ buf' = <<>>
  /\ UNCHANGED <<store, faults, orig, broken>>

\* file_encrypt (lines 52-68): the key is generated first, whatever the path.
file_encrypt(p) ==
  /\ nextKey <= MaxKeys
  /\ Begin("encrypt", p)
  /\ nextKey' = nextKey + 1
  /\ IF Rejected(p)
     THEN /\ msgs' = <<InvalidPathBox(p)>>
          /\ todo' = <<>>
          /\ key' = NoKey
          /\ pc' = "idle"
     ELSE /\ msgs' = <<>>
          /\ todo' = Targets(p)
          /\ key' = enc_key_generate
          /\ pc' = "walk"

\* file_decrypt (lines 90-103)
file_decrypt(p) ==
  /\ Begin("decrypt", p)
  /\ key' = NoKey
  /\ UNCHANGED nextKey
  /\ IF Rejected(p)
     THEN /\ msgs' = <<InvalidPathBox(p)>>
          /\ todo' = <<>>
          /\ pc' = "idle"
     ELSE /\ msgs' = <<>>
          /\ todo' = Targets(p)
          /\ pc' = "walk"

\* The loop hands the next file to the per-file function (lines 61, 65, 96,
\* 100).
walk_next ==
  /\ pc = "walk"
  /\ todo # <<>>
  /\ cur' = Head(todo)
  /\ todo' = Tail(todo)
  /\ pc' = IF op = "encrypt" THEN "e_save" ELSE "d_get"
  /\ UNCHANGED <<store, op, path, nextKey, pre, key, buf, msgs, raised, faults,
                 orig, broken>>

\* The handler's last statements (lines 70-71, 105): encrypt shows its one
\* success box, decrypt shows nothing more.
walk_done ==
  /\ pc = "walk"
  /\ todo = <<>>
  /\ pc' = "idle"
  /\ msgs' = IF op = "encrypt" THEN Append(msgs, EncryptedBox(path)) ELSE msgs
  /\ key' = NoKey
  /\ UNCHANGED <<store, ctl, cur, buf, raised, faults, orig, broken>>

\* ------------------------------- file_encrypt_process (lines 73-87)
\* line 75
EncSave ==
  /\ pc = "e_save"
  /\ \/ LET r == enc_key_save(DLtable, cur, key)
        IN  IF r.ok
            THEN /\ DLtable' = r.t
                 /\ pc' = "e_read"
                 /\ UNCHANGED <<files, dl_log, ctl, key, cur, buf, msgs, raised,
                                faults, orig, broken>>
            ELSE /\ Raise("DuplicateEntry")
                 /\ UNCHANGED <<store, faults>>
     \/ /\ Fault
        /\ Raise("DatabaseError")
        /\ UNCHANGED store

\* lines 77-82
EncRead ==
  /\ pc = "e_read"
  /\ \/ /\ buf' = Fernet_encrypt(key, files[cur])
        /\ orig' = [orig EXCEPT ![cur] = files[cur]]
        /\ pc' = "e_open"
        /\ UNCHANGED <<store, ctl, key, cur, msgs, raised, faults, broken>>
     \/ /\ Fault
        /\ Raise("IOError")
        /\ UNCHANGED store

\* line 83
EncOpen == pc = "e_open" /\ OpenForWrite("e_write")

\* line 84
EncWrite == pc = "e_write" /\ WriteAll("e_log")

\* line 87
EncLog == pc = "e_log" /\ LogAndReturn("encryption activated")

\* ------------------------------ file_decrypt_process (lines 107-128)
\* lines 109-114: the success box is shown as soon as a key is found.
DecGet ==
  /\ pc = "d_get"
  /\ \/ LET k == enc_key_get(DLtable, cur)
        IN  IF key_missing(k)
            THEN /\ msgs' = Append(msgs, KeyNotFoundBox(cur))
                 /\ pc' = "walk"
                 /\ cur' = NoFile
                 /\ UNCHANGED <<store, ctl, key, buf, raised, faults, orig,
                                broken>>
            ELSE /\ msgs' = Append(msgs, DecryptedBox(cur))
                 /\ key' = k
                 /\ pc' = "d_read"
                 /\ UNCHANGED <<store, ctl, cur, buf, raised, faults, orig,
                                broken>>
     \/ /\ Fault
        /\ Raise("DatabaseError")
        /\ UNCHANGED store

\* lines 116-121
DecRead ==
  /\ pc = "d_read"
  /\ \/ LET r == Fernet_decrypt(key, files[cur])
        IN  IF r.ok
            THEN /\ buf' = r.data
                 /\ pc' = "d_open"
                 /\ UNCHANGED <<store, ctl, key, cur, msgs, raised, faults,
                                orig, broken>>
            ELSE /\ Raise("InvalidToken")
                 /\ UNCHANGED <<store, faults>>
     \/ /\ Fault
        /\ Raise("IOError")
        /\ UNCHANGED store

\* line 122
DecOpen == pc = "d_open" /\ OpenForWrite("d_write")

\* line 123
DecWrite == pc = "d_write" /\ WriteAll("d_del")

\* line 125
DecDelete ==
  /\ pc = "d_del"
  /\ \/ /\ DLtable' = enc_key_delete(DLtable, cur)
        /\ pc' = "d_log"
        /\ UNCHANGED <<files, dl_log, ctl, key, cur, buf, msgs, raised, faults,
                       orig, broken>>
     \/ /\ Fault
        /\ Raise("DatabaseError")
        /\ UNCHANGED store

\* line 128
DecLog == pc = "d_log" /\ LogAndReturn("decryption activated")

\* ------------------------------------------------------ specification
Next ==
  \/ \E p \in Paths : file_encrypt(p)
  \/ \E p \in Paths : file_decrypt(p)
  \/ walk_next
  \/ walk_done
  \/ EncSave
  \/ EncRead
  \/ EncOpen
  \/ EncWrite
  \/ EncLog
  \/ DecGet
  \/ DecRead
  \/ DecOpen
  \/ DecWrite
  \/ DecDelete
  \/ DecLog

Spec == Init /\ [][Next]_vars

\* ------------------------------------------------------------ typing
TypeOK ==
  /\ DOMAIN files = Files
  /\ pc \in {"idle", "walk", "e_save", "e_read", "e_open", "e_write", "e_log",
             "d_get", "d_read", "d_open", "d_write", "d_del", "d_log"}
  /\ op \in {"none", "encrypt", "decrypt"}
  /\ path \in Paths \cup {NoFile}
  /\ key \in 0..MaxKeys
  /\ cur \in Files \cup {NoFile}
  /\ nextKey \in 1..(MaxKeys + 1)
  /\ faults \in 0..MaxFaults
  /\ broken \subseteq Files
  /\ \A i \in 1..Len(DLtable) : DLtable[i][1] \in Files /\ DLtable[i][2] \in 1..MaxKeys


\* ------------------------------------------------------------ claims
Range(s) == {s[i] : i \in 1..Len(s)}

\* The path has a KeyRecord now / had one when the handler started.
HasKey(p) == Rows(DLtable, p) # {}
HadKey(p) == Rows(pre.DLtable, p) # {}

\* KeyStore.get(p) returns a key.
GetReturnsKey(p) == enc_key_get(DLtable, p) # NoKey

\* t is what Fernet_encrypt produces under key k for some data.
Authentic(k, t) ==
  /\ Len(t) >= 2
  /\ \A i \in 2..(Len(t) - 1) : Len(t[i]) >= 1
  /\ t = Fernet_encrypt(k, AesDecrypt(k, SubSeq(t, 2, Len(t) - 1)))

\* The bytes are a token of some key: the file is in ciphertext form.
IsCiphertext(t) == \E k \in 1..MaxKeys : Authentic(k, t)

\* The handler last started has returned without an exception.
Returned(kind) == pc = "idle" /\ op = kind /\ raised = <<>>

\* C1. Key lifecycle: once an Encrypt has succeeded, every file it was run on
\* has a key in the store; once a Decrypt has succeeded, every file it was
\* run on that had a key before has none.
C1_KeyLifecycle ==
  /\ Returned("encrypt") =>
       \A f \in Range(Targets(path)) : GetReturnsKey(f)
  /\ Returned("decrypt") =>
       \A f \in Range(Targets(path)) : HadKey(f) => ~GetReturnsKey(f)

C1_Witness ==
  /\ Returned("decrypt")
  /\ path \in Files
  /\ HadKey(path)
  /\ \E i \in 1..Len(dl_log) : dl_log[i] = <<path, "encryption activated">>

\* C2. Decrypt without key: the per-file decrypt of a file that has no row in
\* DLtable leaves files, DLtable and dl_log as they are, and when the lookup
\* itself works it shows the key-not-found error and returns to the walk.
C2_DecryptWithoutKey ==
  [][ (pc = "d_get" /\ Rows(DLtable, cur) = {}) =>
        /\ UNCHANGED store
        /\ pc' \in {"walk", "idle"}
        /\ (faults' = faults =>
              /\ msgs' = Append(msgs, KeyNotFoundBox(cur))
              /\ pc' = "walk"
              /\ raised' = <<>>) ]_vars

C2_Witness ==
  /\ Returned("decrypt")
  /\ path \in Files
  /\ msgs = <<KeyNotFoundBox(path)>>
  /\ DLtable # <<>>

\* C3 as stated: with no handler running, a file has a key in the store
\* exactly when its bytes are ciphertext.
C3_Original ==
  pc = "idle" => \A f \in Files : HasKey(f) <=> IsCiphertext(files[f])

\* C3 as amended: with no handler running, a file whose bytes are ciphertext
\* has a key in the store, and a file that has a key while its bytes are not
\* ciphertext is one on which a per-file encrypt or decrypt ended in an error.
C3_Amended ==
  pc = "idle" =>
    \A f \in Files :
      /\ IsCiphertext(files[f]) => HasKey(f)
      /\ (HasKey(f) /\ ~IsCiphertext(files[f])) => f \in broken

C3_Witness ==
  /\ pc = "idle"
  /\ \E f, g \in Files :
       /\ HasKey(f) /\ IsCiphertext(files[f])
       /\ HasKey(g) /\ ~IsCiphertext(files[g]) /\ g \in broken

\* C4. At most one KeyRecord per path: DLtable never holds two rows with the
\* same filepath.
C4_AtMostOneKeyRecord ==
  \A f \in Files : Cardinality(Rows(DLtable, f)) <= 1

C4_Witness ==
  /\ pc = "idle"
  /\ op = "encrypt"
  /\ raised # <<>>
  /\ raised[1] = "DuplicateEntry"
  /\ Len(DLtable) = Cardinality(Files)

\* C5. Re-encryption is refused: the per-file encrypt of a file that already
\* has a key ends the handler with an error at its first statement; DLtable,
\* the file bytes and dl_log stay as they are and no success box is shown.
C5_ReEncryptRefused ==
  [][ (pc = "e_save" /\ Rows(DLtable, cur) # {}) =>
        /\ UNCHANGED store
        /\ pc' = "idle"
        /\ raised' \in {<<"DuplicateEntry", cur>>, <<"DatabaseError", cur>>}
        /\ msgs' = msgs
        /\ EncryptedBox(path) \notin Range(msgs') ]_vars

C5_Witness ==
  /\ pc = "idle"
  /\ op = "encrypt"
  /\ path \in Files
  /\ raised = <<"DuplicateEntry", path>>
  /\ IsCiphertext(files[path])
  /\ nextKey > enc_key_get(DLtable, path) + 1

\* C6 as stated: when a handler run on a directory has ended, every file of
\* the walk has been handed to the per-file function, whatever happened to
\* the files before it.
C6_SiblingsProcessed ==
  (pc = "idle" /\ os_path_isdir(path)) => todo = <<>>

\* C7. Directory partial failure: when a Decrypt of a directory has returned,
\* every file that had a key holds the bytes read by its encryption and has
\* no key any more, and exactly the files that had no key got the
\* key-not-found error and hold the bytes they held before.
C7_DirectoryPartialFailure ==
  (Returned("decrypt") /\ os_path_isdir(path)) =>
    \A f \in Range(os_walk(path)) :
      IF HadKey(f)
      THEN /\ files[f] = orig[f]
           /\ ~HasKey(f)
           /\ KeyNotFoundBox(f) \notin Range(msgs)
      ELSE /\ files[f] = pre.files[f]
           /\ ~HasKey(f)
           /\ KeyNotFoundBox(f) \in Range(msgs)

C7_Witness ==
  /\ Returned("decrypt")
  /\ os_path_isdir(path)
  /\ \E f, g \in Range(os_walk(path)) :
       /\ HadKey(f) /\ ~HadKey(g)
       /\ IsCiphertext(pre.files[f])
       /\ files[f] # pre.files[f]

\* C8. Invalid root: a handler started on a path that is neither a file nor a
\* directory ends at once with the invalid-path error, and files, DLtable and
\* dl_log are as before.
C8_InvalidRoot ==
  [][ (pc = "idle" /\ ~os_path_isfile(path') /\ ~os_path_isdir(path')) =>
        /\ UNCHANGED store
        /\ pc' = "idle"
        /\ msgs' = <<InvalidPathBox(path')>>
        /\ raised' = <<>> ]_vars

C8_Witness ==
  /\ pc = "idle"
  /\ op = "encrypt"
  /\ path = Missing
  /\ msgs = <<InvalidPathBox(Missing)>>
  /\ DLtable # <<>>
  /\ dl_log # <<>>

C10_NoFalseSuccess ==
  (pc = "idle" /\ op = "decrypt") =>
    \A f \in Files : DecryptedBox(f) \in Range(msgs) => ~HasKey(f)


\* The per-file function applied to cur has just run to its end.
Completes == pc \in {"e_log", "d_log"} /\ pc' = "walk"

\* C11. The audit log is append-only and one-per-transform: dl_log changes
\* only in the step that ends a per-file function normally, and there by
\* exactly one appended row naming the file and the operation; every other
\* step, a failing one included, leaves dl_log as it is.
C11_LogAppendOnly ==
  [][ /\ (pc = "e_log" /\ pc' = "walk") =>
            dl_log' = Append(dl_log, <<cur, "encryption activated">>)
      /\ (pc = "d_log" /\ pc' = "walk") =>
            dl_log' = Append(dl_log, <<cur, "decryption activated">>)
      /\ ~Completes => dl_log' = dl_log
      /\ Len(dl_log') >= Len(dl_log)
      /\ SubSeq(dl_log', 1, Len(dl_log)) = dl_log ]_vars

C11_Witness ==
  /\ pc = "idle"
  /\ raised # <<>>
  /\ \E f \in Files :
       /\ dl_log = << <<f, "encryption activated">>,
                      <<f, "decryption activated">>,
                      <<f, "encryption activated">> >>
       /\ raised[2] = f

\* A file whose transform completed under the handler last started: its bytes
\* were rewritten and its KeyRecord stored (encrypt) or removed (decrypt).
Transformed(f) ==
  /\ files[f] # pre.files[f]
  /\ \/ op = "encrypt" /\ ~HadKey(f) /\ HasKey(f) /\ IsCiphertext(files[f])
     \/ op = "decrypt" /\ HadKey(f) /\ ~HasKey(f) /\ files[f] = orig[f]

\* C12 as stated: a failure of the log write after a file's transform has
\* completed is not fatal, so a handler never ends with the database error
\* raised for a file whose transform completed.
C12_LogFailureNotFatal ==
  pc = "idle" =>
    \A f \in Files : Transformed(f) => raised # <<"DatabaseError", f>>


\* C13. File-level round trip: when a Decrypt has returned, every file it was
\* run on that had a key holds the bytes its encryption read.
C13_RoundTrip ==
  Returned("decrypt") =>
    \A f \in Range(Targets(path)) : HadKey(f) => files[f] = orig[f]

C13_Witness ==
  /\ Returned("decrypt")
  /\ path \in Files
  /\ HadKey(path)
  /\ files[path] = orig[path]
  /\ files[path] # pre.files[path]
  /\ Len(files[path]) = 2
  /\ dl_log = << <<path, "encryption activated">>,
                 <<path, "decryption activated">> >>

\* C14 as stated: the KeyRecords of two different files never hold the same
\* key.
C14_Original ==
  \A i, j \in 1..Len(DLtable) : i # j => DLtable[i][2] # DLtable[j][2]

\* C14 as amended: every press of the encrypt button generates one fresh key;
\* each row the handler stores holds that key, and no row that was in DLtable
\* when the handler started holds it.
C14_Amended ==
  [][ (pc = "e_save" /\ DLtable' # DLtable) =>
        /\ DLtable' = Append(DLtable, <<cur, key>>)
        /\ \A i \in 1..Len(pre.DLtable) : pre.DLtable[i][2] # key
        /\ \A i \in (Len(pre.DLtable) + 1)..Len(DLtable') :
             DLtable'[i][2] = key ]_vars

C14_Witness ==
  /\ Returned("encrypt")
  /\ os_path_isdir(path)
  /\ pre.DLtable = <<>>
  /\ Len(DLtable) = 2
  /\ DLtable[1][1] # DLtable[2][1]
  /\ DLtable[1][2] = DLtable[2][2]
  /\ nextKey > 2


\* C15. Step ordering. Encrypt: whenever the file is modified its KeyRecord is
\* already stored, and when the log row is appended the file holds the token
\* of the bytes read. Decrypt: whenever the file is modified the key has been
\* looked up and is still stored, when the KeyRecord is deleted the file
\* holds the decrypted bytes, and when the log row is appended the KeyRecord
\* is gone.
C15_StepOrdering ==
  [][ /\ (op = "encrypt" /\ files' # files) =>
            /\ pc \in {"e_open", "e_write"}
            /\ Rows(DLtable, cur) # {}
            /\ \A i \in Rows(DLtable, cur) : DLtable[i][2] = key
      /\ (op = "encrypt" /\ dl_log' # dl_log) =>
            /\ Rows(DLtable, cur) # {}
            /\ files[cur] = Fernet_encrypt(key, orig[cur])
      /\ (op = "encrypt" /\ DLtable' # DLtable) =>
            /\ pc = "e_save"
            /\ files[cur] = pre.files[cur]
      /\ (op = "decrypt" /\ files' # files) =>
            /\ pc \in {"d_open", "d_write"}
            /\ key # NoKey
            /\ \A i \in Rows(DLtable, cur) : DLtable[i][2] = key
            /\ Rows(DLtable, cur) # {}
      /\ (op = "decrypt" /\ DLtable' # DLtable) =>
            /\ pc = "d_del"
            /\ files[cur] = buf
            /\ files[cur] = orig[cur]
      /\ (op = "decrypt" /\ dl_log' # dl_log) =>
            /\ pc = "d_log"
            /\ Rows(DLtable, cur) = {}
            /\ files[cur] = orig[cur] ]_vars

C15_Witness ==
  /\ pc = "d_log"
  /\ ~HasKey(cur)
  /\ files[cur] = orig[cur]
  /\ IsCiphertext(pre.files[cur])
  /\ \E f \in Files : f # cur /\ HasKey(f) /\ IsCiphertext(files[f])

\* C16. Encrypt failure window: when a statement of the per-file encrypt
\* raises after the KeyRecord was stored, the KeyRecord stays in DLtable,
\* nothing is appended to dl_log, no success box is shown and the exception
\* ends the handler.
C16_EncryptFailureWindow ==
  [][ (pc \in {"e_read", "e_open", "e_write"} /\ faults' # faults) =>
        /\ DLtable' = DLtable
        /\ Rows(DLtable', cur) # {}
        /\ dl_log' = dl_log
        /\ pc' = "idle"
        /\ raised' = <<"IOError", cur>>
        /\ EncryptedBox(path) \notin Range(msgs') ]_vars

C16_Witness ==
  /\ pc = "idle"
  /\ op = "encrypt"
  /\ raised # <<>>
  /\ raised[1] = "IOError"
  /\ HasKey(raised[2])
  /\ ~IsCiphertext(files[raised[2]])
  /\ files[raised[2]] # pre.files[raised[2]]
  /\ dl_log = <<>>


\* C17 as stated: at every instant each file holds either its complete old
\* contents or its complete new contents: the bytes the handler found, the
\* bytes the last encryption read, or the whole token of those bytes.
C17_AllOrNothing ==
  \A f \in Files :
    \/ files[f] = pre.files[f]
    \/ files[f] = orig[f]
    \/ \E k \in 1..MaxKeys : files[f] = Fernet_encrypt(k, orig[f])

\* C18. KeyStore delete is idempotent and get is total: on the table of every
\* reachable state, deleting a path that has no row changes nothing, a second
\* delete of a path changes nothing more, no row of the path is left after a
\* delete, and get of a path that has no row returns None.
C18_DeleteIdempotentGetTotal ==
  \A p \in Paths :
    /\ Rows(DLtable, p) = {} =>
         /\ enc_key_delete(DLtable, p) = DLtable
         /\ enc_key_get(DLtable, p) = NoKey
    /\ enc_key_delete(enc_key_delete(DLtable, p), p) = enc_key_delete(DLtable, p)
    /\ Rows(enc_key_delete(DLtable, p), p) = {}
    /\ enc_key_get(enc_key_delete(DLtable, p), p) = NoKey

C18_Witness ==
  /\ pc = "d_log"
  /\ Rows(DLtable, cur) = {}
  /\ Rows(pre.DLtable, cur) # {}
  /\ DLtable # <<>>
  /\ enc_key_delete(DLtable, cur) = DLtable


\* C19. Recoverability: in every state, a running or failed handler included,
\* when a file's bytes are ciphertext the key that get returns for its path
\* decrypts them to the bytes the encryption read.
C19_Recoverable ==
  \A f \in Files :
    IsCiphertext(files[f]) =>
      LET r == Fernet_decrypt(enc_key_get(DLtable, f), files[f])
      IN  r.ok /\ r.data = orig[f]

C19_Witness ==
  /\ pc = "idle"
  /\ raised # <<>>
  /\ nextKey > MaxKeys
  /\ \E f, g \in Files :
       /\ f # g
       /\ IsCiphertext(files[f])
       /\ IsCiphertext(files[g])
       /\ enc_key_get(DLtable, f) # enc_key_get(DLtable, g)
       /\ Len(dl_log) >= 3

\* The rows of DLtable for path f, in table order.
KeyRows(t, f) == SelectSeq(t, LAMBDA r : r[1] = f)

\* C20. Frame: a step of the per-file function applied to cur leaves the
\* bytes and the KeyRecords of every other path as they are and appends to
\* dl_log only rows that name cur, whether the step succeeds or raises; the
\* steps of the handler outside the per-file function change no file, no
\* KeyRecord and no log row.
C20_Frame ==
  [][ /\ \A f \in Files :
           f # cur => /\ files'[f] = files[f]
                      /\ KeyRows(DLtable', f) = KeyRows(DLtable, f)
      /\ dl_log' # dl_log =>
           \E what \in {"encryption activated", "decryption activated"} :
             dl_log' = Append(dl_log, <<cur, what>>)
      /\ cur = NoFile => UNCHANGED store ]_vars

C20_Witness ==
  /\ pc = "idle"
  /\ op = "decrypt"
  /\ path \in Files
  /\ raised = <<"IOError", path>>
  /\ files[path] # pre.files[path]
  /\ \E g \in Files :
       /\ g # path
       /\ HasKey(g)
       /\ IsCiphertext(files[g])
       /\ files[g] = pre.files[g]

====
